---- MODULE Spec2Model ----
(***************************************************************************)
(* provision.py: load a configuration, resolve the default VPC, find or    *)
(* create a security group with ingress for SSH and HTTP, launch EC2       *)
(* instances, wait until they run, report their public addresses.  The     *)
(* optional cleanup_resources terminates the instances and deletes the     *)
(* security group.                                                         *)
(*                                                                         *)
(* The EC2 service is the environment: every remote call may succeed or    *)
(* raise a ClientError, a waiter may raise a WaiterError, and the service  *)
(* keeps an inventory of security groups and instances that outlives a     *)
(* run of the script.                                                      *)
(***************************************************************************)
EXTENDS Integers, Sequences, FiniteSets, TLC

VARIABLES
    file,               \* the configuration file on disk
    vpcs,               \* provider: ids of the VPCs flagged isDefault
    groups,             \* provider: security groups, id -> [name, vpc, rules]
    instances,          \* provider: instances, id -> [state, ip, sg]
    runs,               \* how many times the script was started
    pc,                 \* position of the process
    status,             \* exit status of the process (NoStatus while running)
    exc,                \* the exception that ended the process, "" if none
    out,                \* tags of the error messages printed
    config,             \* __main__: config
    default_vpc_id,     \* __main__: default_vpc_id
    sg_id,              \* create_security_group: sg_id
    security_group_id,  \* __main__: security_group_id
    instance_ids,       \* provision_ec2_instance: instance_ids
    public_ips,         \* provision_ec2_instance: public_ips
    summary,            \* the blocks of the provisioning summary printed
    calls,              \* the remote calls the process made, in order
    cret,               \* cleanup_resources: "none", "active", "returned", "raised"
    cargs               \* cleanup_resources: its arguments

vars == <<file, vpcs, groups, instances, runs, pc, status, exc, out, config,
          default_vpc_id, sg_id, security_group_id, instance_ids, public_ips,
          summary, calls, cret, cargs>>

----------------------------------------------------------------------------
\* Bounds of the model.

MaxCount == 2       \* largest instance_count of a configuration
MaxRuns == 2        \* starts of the script against the same account
MaxMissing == 1     \* required keys a configuration file may lack

----------------------------------------------------------------------------
\* Values of the program.

SSH_PORT == 22
HTTP_PORT == 80
MinCount == 1
ANY_SOURCE == "0.0.0.0/0"

Fields == {"aws_region", "ami_id", "instance_type", "instance_count",
           "key_pair_name", "security_group_name", "security_group_description"}

None == 0           \* Python's None for an identifier; provider ids are >= 1
NoStatus == -1      \* the process has not exited
NoLine == 0         \* a summary block without a "Public IP" line

SgName == "sg-test"         \* the configured security_group_name
OtherName == "sg-other"     \* a group of the account the script does not ask for

Rule(port) == [proto |-> "tcp", from |-> port, to |-> port, cidr |-> ANY_SOURCE]

\* A remote call as the process issued it and the error it raised ("" if none).
Call(op, gid, perms, ids, mn, mx, err) ==
    [op |-> op, gid |-> gid, perms |-> perms, ids |-> ids,
     min |-> mn, max |-> mx, err |-> err]

Ok(c) == c.err = ""

CallsOf(ops) == {i \in 1..Len(calls) : calls[i].op \in ops}

Range(s) == {s[i] : i \in 1..Len(s)}

----------------------------------------------------------------------------
\* The provider.

GroupIds == DOMAIN groups
InstIds == DOMAIN instances

\* describe_security_groups(GroupNames=[name]): the groups carrying the name.
GroupsNamed(name) == {g \in GroupIds : groups[g].name = name}

NewGroupId == IF GroupIds = {} THEN 1 ELSE 1 + CHOOSE g \in GroupIds : \A h \in GroupIds : h <= g

NewInstIds(k) ==
    LET base == IF InstIds = {} THEN 0 ELSE CHOOSE i \in InstIds : \A j \in InstIds : j <= i
    IN  [n \in 1..k |-> base + n]

\* The address the provider gives instance i when it gives one.
AddressOf(i) == 100 + i

Extend(f, k, v) == [x \in DOMAIN f \cup {k} |-> IF x = k THEN v ELSE f[x]]

\* str(e) of a ClientError holds the provider's error code.
NotFoundSignalled(err) == err = "DoesNotExist"

----------------------------------------------------------------------------
\* The configuration files a run may find.

ConfigFiles ==
    {[kind |-> "notfound", present |-> {}, instance_count |-> 1],
     [kind |-> "malformed", present |-> {}, instance_count |-> 1]}
    \cup {[kind |-> "ok", present |-> Fields \ m, instance_count |-> n] :
            m \in {s \in SUBSET Fields : Cardinality(s) <= MaxMissing},
            n \in 1..MaxCount}

NoConfig == [present |-> {}, instance_count |-> 0]

\* The inventories of security groups an account may hold before the first run.
InitialGroups ==
    {<<>>}
    \cup {[g \in {1} |-> [name |-> OtherName, vpc |-> 1, rules |-> {}]]}
    \cup {[g \in {1} |-> [name |-> SgName, vpc |-> 1, rules |-> {Rule(p) : p \in ps}]] :
            ps \in SUBSET {SSH_PORT, HTTP_PORT}}

\* The answers of describe_vpcs for the isDefault filter: none, one, several.
VpcAnswers == {<<>>, <<1>>, <<2, 1>>}

NoArgs == [ids |-> <<>>, sg |-> None]

Locals ==
    /\ pc = "load_config"
    /\ status = NoStatus
    /\ exc = ""
    /\ out = {}
    /\ config = NoConfig
    /\ default_vpc_id = None
    /\ sg_id = None
    /\ security_group_id = None
    /\ instance_ids = <<>>
    /\ public_ips = <<>>
    /\ summary = <<>>
    /\ calls = <<>>
    /\ cret = "none"
    /\ cargs = NoArgs

Init ==
    /\ file \in ConfigFiles
    /\ vpcs \in VpcAnswers
    /\ groups \in InitialGroups
    /\ instances = <<>>
    /\ runs = 1
    /\ Locals

----------------------------------------------------------------------------
\* Ends of the process.

\* sys.exit(1) after printing the message tagged msg.
Fatal(msg) ==
    /\ pc' = "exit"
    /\ status' = 1
    /\ exc' = "SystemExit"
    /\ out' = out \cup {msg}

\* An exception no handler catches: traceback, exit status 1.
Uncaught(e) ==
    /\ pc' = "exit"
    /\ status' = 1
    /\ exc' = e
    /\ out' = out

Goto(p) ==
    /\ pc' = p
    /\ UNCHANGED <<status, exc, out>>

Provider == <<file, vpcs, groups, instances, runs>>
Cleanup == <<cret, cargs>>
ProvLocals == <<instance_ids, public_ips, summary>>

----------------------------------------------------------------------------
\* __main__ and the functions it calls.

Has(key) == key \in config.present

\* load_config, called at line 174.
LoadConfig ==
    /\ pc = "load_config"
    /\ \/ /\ file.kind = "notfound"
          /\ Fatal("config_not_found")
          /\ UNCHANGED config
       \/ /\ file.kind = "malformed"
          /\ Fatal("config_parse_error")
          /\ UNCHANGED config
       \/ /\ file.kind = "ok"
          /\ config' = [present |-> file.present, instance_count |-> file.instance_count]
          /\ Goto("client")
    /\ UNCHANGED <<Provider, Cleanup, ProvLocals, default_vpc_id, sg_id,
                   security_group_id, calls>>

\* boto3.client('ec2', region_name=config['aws_region']): no remote call.
MakeClient ==
    /\ pc = "client"
    /\ IF Has("aws_region") THEN Goto("describe_vpcs") ELSE Uncaught("KeyError")
    /\ UNCHANGED <<Provider, Cleanup, ProvLocals, config, default_vpc_id, sg_id,
                   security_group_id, calls>>

\* Variant: the message for an empty answer is printed and the run goes on.
DescribeVpcsNoExit ==
    /\ pc = "describe_vpcs"
    /\ \/ /\ calls' = Append(calls, Call("describe_vpcs", None, {}, <<>>, None, None, "Other"))
          /\ Fatal("vpc_error")
          /\ UNCHANGED default_vpc_id
       \/ /\ calls' = Append(calls, Call("describe_vpcs", None, {}, <<>>, None, None, ""))
          /\ IF vpcs = <<>>
             THEN /\ pc' = "call_sg"
                  /\ out' = out \cup {"no_default_vpc"}
                  /\ UNCHANGED <<status, exc, default_vpc_id>>
             ELSE /\ default_vpc_id' = vpcs[1]
                  /\ Goto("call_sg")
    /\ UNCHANGED <<Provider, Cleanup, ProvLocals, config, sg_id, security_group_id>>

\* The default VPC: describe_vpcs with the isDefault filter.
DescribeVpcs ==
    /\ pc = "describe_vpcs"
    /\ \/ /\ calls' = Append(calls, Call("describe_vpcs", None, {}, <<>>, None, None, "Other"))
          /\ Fatal("vpc_error")
          /\ UNCHANGED default_vpc_id
       \/ /\ calls' = Append(calls, Call("describe_vpcs", None, {}, <<>>, None, None, ""))
          /\ IF vpcs = <<>>
             THEN /\ Fatal("no_default_vpc")
                  /\ UNCHANGED default_vpc_id
             ELSE /\ default_vpc_id' = vpcs[1]
                  /\ Goto("call_sg")
    /\ UNCHANGED <<Provider, Cleanup, ProvLocals, config, sg_id, security_group_id>>

\* The arguments of the call of create_security_group are read from config.
CallCreateSecurityGroup ==
    /\ pc = "call_sg"
    /\ IF Has("security_group_name") /\ Has("security_group_description")
       THEN Goto("sg_describe")
       ELSE Uncaught("KeyError")
    /\ UNCHANGED <<Provider, Cleanup, ProvLocals, config, default_vpc_id, sg_id,
                   security_group_id, calls>>

\* Variant: a group that is found has its rules attached again.
SgDescribeReconcile ==
    /\ pc = "sg_describe"
    /\ \/ /\ \E g \in GroupsNamed(SgName) :
                /\ calls' = Append(calls, Call("describe_security_groups", g, {}, <<>>, None, None, ""))
                /\ sg_id' = g
          /\ Goto("sg_auth22")
       \/ /\ GroupsNamed(SgName) = {}
          /\ calls' = Append(calls, Call("describe_security_groups", None, {}, <<>>, None, None, "DoesNotExist"))
          /\ Goto("sg_create")
          /\ UNCHANGED sg_id
       \/ /\ calls' = Append(calls, Call("describe_security_groups", None, {}, <<>>, None, None, "Other"))
          /\ Fatal("sg_describe_error")
          /\ UNCHANGED sg_id
    /\ UNCHANGED <<Provider, Cleanup, ProvLocals, config, default_vpc_id, security_group_id>>

\* create_security_group: the lookup by name and its three outcomes.
SgDescribe ==
    /\ pc = "sg_describe"
    /\ \/ /\ \E g \in GroupsNamed(SgName) :
                /\ calls' = Append(calls, Call("describe_security_groups", g, {}, <<>>, None, None, ""))
                /\ sg_id' = g
                /\ security_group_id' = g
          /\ Goto("run_instances")
       \/ /\ \E err \in {"DoesNotExist", "Other"} :
                /\ err = "DoesNotExist" => GroupsNamed(SgName) = {}
                /\ calls' = Append(calls, Call("describe_security_groups", None, {}, <<>>, None, None, err))
                /\ IF NotFoundSignalled(err)
                   THEN Goto("sg_create")
                   ELSE Fatal("sg_describe_error")
          /\ UNCHANGED <<sg_id, security_group_id>>
    /\ UNCHANGED <<Provider, Cleanup, ProvLocals, config, default_vpc_id>>

\* create_security_group: the group is created in the default VPC, without rules.
SgCreate ==
    /\ pc = "sg_create"
    /\ \/ /\ GroupsNamed(SgName) = {}
          /\ LET g == NewGroupId IN
                /\ groups' = Extend(groups, g, [name |-> SgName, vpc |-> default_vpc_id, rules |-> {}])
                /\ calls' = Append(calls, Call("create_security_group", g, {}, <<>>, None, None, ""))
                /\ sg_id' = g
          /\ Goto("sg_auth22")
       \/ /\ calls' = Append(calls, Call("create_security_group", None, {}, <<>>, None, None, "Other"))
          /\ Fatal("sg_create_error")
          /\ UNCHANGED <<groups, sg_id>>
    /\ UNCHANGED <<file, vpcs, instances, runs, Cleanup, ProvLocals, config,
                   default_vpc_id, security_group_id>>

\* authorize_security_group_ingress for one TCP port from any source.
Authorize(port, next, ret) ==
    \/ /\ groups' = [groups EXCEPT ![sg_id].rules = @ \cup {Rule(port)}]
       /\ calls' = Append(calls, Call("authorize_security_group_ingress", sg_id, {Rule(port)}, <<>>, None, None, ""))
       /\ security_group_id' = IF ret THEN sg_id ELSE security_group_id
       /\ Goto(next)
    \/ /\ calls' = Append(calls, Call("authorize_security_group_ingress", sg_id, {Rule(port)}, <<>>, None, None, "Other"))
       /\ Fatal("sg_create_error")
       /\ UNCHANGED <<groups, security_group_id>>

\* Variant: the handler removes the group it created when the rule cannot be added.
SgAuth22Rollback ==
    /\ pc = "sg_auth22"
    /\ \/ /\ groups' = [groups EXCEPT ![sg_id].rules = @ \cup {Rule(SSH_PORT)}]
          /\ calls' = Append(calls, Call("authorize_security_group_ingress", sg_id, {Rule(SSH_PORT)}, <<>>, None, None, ""))
          /\ Goto("sg_auth80")
       \/ /\ calls' = calls \o <<Call("authorize_security_group_ingress", sg_id, {Rule(SSH_PORT)}, <<>>, None, None, "Other"),
                                 Call("delete_security_group", sg_id, {}, <<>>, None, None, "")>>
          /\ groups' = [g \in GroupIds \ {sg_id} |-> groups[g]]
          /\ Fatal("sg_create_error")
    /\ UNCHANGED <<file, vpcs, instances, runs, Cleanup, ProvLocals, config,
                   default_vpc_id, sg_id, security_group_id>>

SgAuth22 ==
    /\ pc = "sg_auth22"
    /\ Authorize(SSH_PORT, "sg_auth80", FALSE)
    /\ UNCHANGED <<file, vpcs, instances, runs, Cleanup, ProvLocals, config,
                   default_vpc_id, sg_id>>

\* Variant: the second rule repeats the port of the first.
SgAuth80WrongPort ==
    /\ pc = "sg_auth80"
    /\ Authorize(SSH_PORT, "run_instances", TRUE)
    /\ UNCHANGED <<file, vpcs, instances, runs, Cleanup, ProvLocals, config,
                   default_vpc_id, sg_id>>

SgAuth80 ==
    /\ pc = "sg_auth80"
    /\ Authorize(HTTP_PORT, "run_instances", TRUE)
    /\ UNCHANGED <<file, vpcs, instances, runs, Cleanup, ProvLocals, config,
                   default_vpc_id, sg_id>>

----------------------------------------------------------------------------
\* provision_ec2_instance.

SgLocals == <<default_vpc_id, sg_id, security_group_id>>

\* The addresses of the instances described, in the order of the answer;
\* an instance without 'PublicIpAddress' contributes nothing.
Described(ids) == [n \in 1..Len(ids) |-> instances[ids[n]].ip]

\* Variant: every instance described contributes an entry.
PublicIpsUnfiltered(ids) == Described(ids)

PublicIps(ids) == SelectSeq(Described(ids), LAMBDA a : a # None)

\* One block per instance id; the address line is the entry at the same position.
Summary(ids, ips) ==
    [n \in 1..Len(ids) |-> [id |-> ids[n], ip |-> IF n <= Len(ips) THEN ips[n] ELSE NoLine]]

\* run_instances with MinCount=1, MaxCount=instance_count: the provider
\* launches any number of instances in that range.
RunInstances ==
    /\ pc = "run_instances"
    /\ IF ~(Has("instance_count") /\ Has("ami_id") /\ Has("instance_type") /\ Has("key_pair_name"))
       THEN /\ Uncaught("KeyError")
            /\ UNCHANGED <<instances, instance_ids, calls>>
       ELSE \/ /\ calls' = Append(calls, Call("run_instances", security_group_id, {}, <<>>,
                                               MinCount, config.instance_count, "Other"))
               /\ Fatal("launch_error")
               /\ UNCHANGED <<instances, instance_ids>>
            \/ \E k \in MinCount..config.instance_count :
                 LET ids == NewInstIds(k) IN
                    /\ instances' = [i \in InstIds \cup Range(ids) |->
                                        IF i \in InstIds THEN instances[i]
                                        ELSE [state |-> "pending", ip |-> None, sg |-> security_group_id]]
                    /\ calls' = Append(calls, Call("run_instances", security_group_id, {}, ids,
                                                   MinCount, config.instance_count, ""))
                    /\ instance_ids' = ids
                    /\ Goto("wait_running")
    /\ UNCHANGED <<file, vpcs, groups, runs, Cleanup, SgLocals, config, public_ips, summary>>

\* Variant: a failed wait is reported and the function goes on.
WaitRunningSwallow ==
    /\ pc = "wait_running"
    /\ \/ /\ calls' = Append(calls, Call("wait_instance_running", None, {}, instance_ids, None, None, "Waiter"))
          /\ pc' = "describe_instances"
          /\ out' = out \cup {"launch_error"}
          /\ UNCHANGED <<status, exc, instances>>
       \/ /\ \E addressed \in SUBSET Range(instance_ids) :
                instances' = [i \in InstIds |->
                                IF i \in Range(instance_ids)
                                THEN [instances[i] EXCEPT !.state = "running",
                                          !.ip = IF i \in addressed THEN AddressOf(i) ELSE None]
                                ELSE instances[i]]
          /\ calls' = Append(calls, Call("wait_instance_running", None, {}, instance_ids, None, None, ""))
          /\ Goto("describe_instances")
    /\ UNCHANGED <<file, vpcs, groups, runs, Cleanup, SgLocals, ProvLocals, config>>

\* The waiter 'instance_running'; its WaiterError is no ClientError, so no
\* handler of the script catches it.  The provider assigns public addresses
\* to the instances it chooses.
WaitRunning ==
    /\ pc = "wait_running"
    /\ \/ /\ calls' = Append(calls, Call("wait_instance_running", None, {}, instance_ids, None, None, "Waiter"))
          /\ Uncaught("WaiterError")
          /\ UNCHANGED instances
       \/ /\ \E addressed \in SUBSET Range(instance_ids) :
                instances' = [i \in InstIds |->
                                IF i \in Range(instance_ids)
                                THEN [instances[i] EXCEPT !.state = "running",
                                          !.ip = IF i \in addressed THEN AddressOf(i) ELSE None]
                                ELSE instances[i]]
          /\ calls' = Append(calls, Call("wait_instance_running", None, {}, instance_ids, None, None, ""))
          /\ Goto("describe_instances")
    /\ UNCHANGED <<file, vpcs, groups, runs, Cleanup, SgLocals, ProvLocals, config>>

\* describe_instances, the list of public addresses and the summary.
DescribeInstances ==
    /\ pc = "describe_instances"
    /\ \/ /\ calls' = Append(calls, Call("describe_instances", None, {}, instance_ids, None, None, "Other"))
          /\ Fatal("launch_error")
          /\ UNCHANGED <<public_ips, summary>>
       \/ /\ calls' = Append(calls, Call("describe_instances", None, {}, instance_ids, None, None, ""))
          /\ public_ips' = PublicIps(instance_ids)
          /\ summary' = Summary(instance_ids, public_ips')
          /\ Goto("epilogue")
    /\ UNCHANGED <<Provider, Cleanup, SgLocals, config, instance_ids>>

\* The closing messages of __main__; cleanup_resources is not called.
Epilogue ==
    /\ pc = "epilogue"
    /\ pc' = "exit"
    /\ status' = 0
    /\ UNCHANGED <<Provider, Cleanup, SgLocals, ProvLocals, config, calls, exc, out>>

----------------------------------------------------------------------------
\* cleanup_resources, called by the operator with identifiers of a finished run.

RunState == <<status, config, SgLocals, ProvLocals>>

CleanupCall ==
    /\ pc = "exit"
    /\ status = 0
    /\ cret = "none"
    /\ \E ids \in {<<>>, instance_ids}, sg \in {None, security_group_id} :
          /\ cargs' = [ids |-> ids, sg |-> sg]
          /\ pc' = IF ids # <<>> THEN "cl_terminate" ELSE "cl_sg"
    /\ cret' = "active"
    /\ UNCHANGED <<Provider, RunState, calls, exc, out>>

\* terminate_instances; a ClientError is printed and the function goes on.
CleanupTerminate ==
    /\ pc = "cl_terminate"
    /\ \/ /\ calls' = Append(calls, Call("terminate_instances", None, {}, cargs.ids, None, None, "Other"))
          /\ out' = out \cup {"terminate_error"}
          /\ pc' = "cl_sg"
          /\ UNCHANGED instances
       \/ /\ calls' = Append(calls, Call("terminate_instances", None, {}, cargs.ids, None, None, ""))
          /\ instances' = [i \in InstIds |->
                             IF i \in Range(cargs.ids)
                             THEN [instances[i] EXCEPT !.state = "shutting-down"]
                             ELSE instances[i]]
          /\ pc' = "cl_wait"
          /\ UNCHANGED out
    /\ UNCHANGED <<file, vpcs, groups, runs, RunState, Cleanup, exc>>

\* The waiter 'instance_terminated'; its WaiterError leaves the function.
CleanupWait ==
    /\ pc = "cl_wait"
    /\ \/ /\ calls' = Append(calls, Call("wait_instance_terminated", None, {}, cargs.ids, None, None, "Waiter"))
          /\ exc' = "WaiterError"
          /\ cret' = "raised"
          /\ pc' = "exit"
          /\ UNCHANGED instances
       \/ /\ calls' = Append(calls, Call("wait_instance_terminated", None, {}, cargs.ids, None, None, ""))
          /\ instances' = [i \in InstIds |->
                             IF i \in Range(cargs.ids)
                             THEN [instances[i] EXCEPT !.state = "terminated"]
                             ELSE instances[i]]
          /\ pc' = "cl_sg"
          /\ UNCHANGED <<exc, cret>>
    /\ UNCHANGED <<file, vpcs, groups, runs, RunState, cargs, out>>

\* The provider deletes a group no live instance uses.
InUse(g) == \E i \in InstIds : instances[i].sg = g /\ instances[i].state # "terminated"

\* delete_security_group after the pause; a ClientError is printed.
CleanupSg ==
    /\ pc = "cl_sg"
    /\ IF cargs.sg = None
       THEN UNCHANGED <<groups, calls, out>>
       ELSE \/ /\ calls' = Append(calls, Call("delete_security_group", cargs.sg, {}, <<>>, None, None, "Other"))
               /\ out' = out \cup {"delete_error"}
               /\ UNCHANGED groups
            \/ /\ cargs.sg \in GroupIds
               /\ ~InUse(cargs.sg)
               /\ calls' = Append(calls, Call("delete_security_group", cargs.sg, {}, <<>>, None, None, ""))
               /\ groups' = [g \in GroupIds \ {cargs.sg} |-> groups[g]]
               /\ UNCHANGED out
    /\ cret' = "returned"
    /\ pc' = "exit"
    /\ UNCHANGED <<file, vpcs, instances, runs, RunState, cargs, exc>>

----------------------------------------------------------------------------
\* The script is started again against the same account and file.
NewRun ==
    /\ pc = "exit"
    /\ cret = "none"
    /\ runs < MaxRuns
    /\ runs' = runs + 1
    /\ pc' = "load_config"
    /\ status' = NoStatus
    /\ exc' = ""
    /\ out' = {}
    /\ config' = NoConfig
    /\ default_vpc_id' = None
    /\ sg_id' = None
    /\ security_group_id' = None
    /\ instance_ids' = <<>>
    /\ public_ips' = <<>>
    /\ summary' = <<>>
    /\ calls' = <<>>
    /\ cret' = "none"
    /\ cargs' = NoArgs
    /\ UNCHANGED <<file, vpcs, groups, instances>>

Next ==
    \/ LoadConfig
    \/ MakeClient
    \/ DescribeVpcs
    \/ CallCreateSecurityGroup
    \/ SgDescribe
    \/ SgCreate
    \/ SgAuth22
    \/ SgAuth80
    \/ RunInstances
    \/ WaitRunning
    \/ DescribeInstances
    \/ Epilogue
    \/ CleanupCall
    \/ CleanupTerminate
    \/ CleanupWait
    \/ CleanupSg
    \/ NewRun

Spec == Init /\ [][Next]_vars

----------------------------------------------------------------------------
\* Vocabulary of the properties.

\* The log holds the calls of the provisioning run alone.
InRun == cret = "none"

SgOps == {"describe_security_groups", "create_security_group",
          "authorize_security_group_ingress", "delete_security_group"}
InstOps == {"run_instances", "wait_instance_running", "describe_instances",
            "terminate_instances", "wait_instance_terminated"}
ReclaimOps == {"terminate_instances", "wait_instance_terminated", "delete_security_group"}

OkCalls(op) == {i \in 1..Len(calls) : calls[i].op = op /\ Ok(calls[i])}
FailedCalls(op) == {i \in 1..Len(calls) : calls[i].op = op /\ ~Ok(calls[i])}

\* create_security_group has returned to __main__.
SgReturned == InRun /\ security_group_id # None

\* provision_ec2_instance has returned to __main__.
ProvReturned == InRun /\ (pc = "epilogue" \/ (pc = "exit" /\ status = 0))

LookupFound == \E i \in 1..Len(calls) : calls[i].op = "describe_security_groups" /\ Ok(calls[i])
LookupNotFound ==
    \E i \in 1..Len(calls) : calls[i].op = "describe_security_groups" /\ NotFoundSignalled(calls[i].err)

----------------------------------------------------------------------------
\* C1: whenever create_security_group returns an identifier, the group with
\* that identifier allows TCP 22 and TCP 80 from 0.0.0.0/0.
C1_ReturnedGroupAllowsSshAndHttp ==
    SgReturned =>
        /\ security_group_id \in GroupIds
        /\ {Rule(SSH_PORT), Rule(HTTP_PORT)} \subseteq groups[security_group_id].rules

\* C2: when the lookup by name finds a group, create_security_group makes no
\* further call, leaves the groups and their rules as they are and returns the
\* identifier of the group found.
C2_FoundIsReturnedUntouched ==
    [][(pc = "sg_describe" /\ Len(calls') > Len(calls)
          /\ calls'[Len(calls')].op = "describe_security_groups" /\ Ok(calls'[Len(calls')]))
       => /\ pc' = "run_instances"
          /\ calls' = Append(calls, calls'[Len(calls')])
          /\ \A i \in 1..Len(calls') :
                calls'[i].op \notin {"create_security_group", "authorize_security_group_ingress"}
          /\ groups' = groups
          /\ security_group_id' \in GroupsNamed(SgName)
          /\ security_group_id' = calls'[Len(calls')].gid]_vars

C2_Witness == SgReturned /\ LookupFound /\ pc = "run_instances"

\* C3: when the lookup signals that the name does not exist and
\* create_security_group returns, its calls after the lookup are, in order,
\* one create, one authorize for TCP 22 and one for TCP 80, both on the
\* created group from 0.0.0.0/0, and the created identifier is returned.
C3_NotFoundCreatesThenTwoRules ==
    (SgReturned /\ LookupNotFound) =>
        SelectSeq(calls, LAMBDA c : c.op \in SgOps) =
            << Call("describe_security_groups", None, {}, <<>>, None, None, "DoesNotExist"),
               Call("create_security_group", security_group_id, {}, <<>>, None, None, ""),
               Call("authorize_security_group_ingress", security_group_id,
                    {[proto |-> "tcp", from |-> 22, to |-> 22, cidr |-> "0.0.0.0/0"]}, <<>>, None, None, ""),
               Call("authorize_security_group_ingress", security_group_id,
                    {[proto |-> "tcp", from |-> 80, to |-> 80, cidr |-> "0.0.0.0/0"]}, <<>>, None, None, "") >>

C3_Witness == SgReturned /\ LookupNotFound /\ pc = "run_instances"

\* C4: when describe_vpcs answers with no default VPC the run ends with exit
\* status 1 and has made no security-group call and no instance call.
C4_NoDefaultVpcShortCircuits ==
    (InRun /\ vpcs = <<>> /\ OkCalls("describe_vpcs") # {}) =>
        /\ pc = "exit"
        /\ status = 1
        /\ \A i \in 1..Len(calls) : calls[i].op \notin SgOps \cup InstOps

C4_Witness == InRun /\ vpcs = <<>> /\ OkCalls("describe_vpcs") # {} /\ pc = "exit"

\* C5: whenever provision_ec2_instance returns, one run_instances call
\* launched exactly instance_count instances and the returned list of
\* instance identifiers has that length.
C5_LaunchesExactlyInstanceCount ==
    ProvReturned =>
        /\ Cardinality(CallsOf({"run_instances"})) = 1
        /\ \A i \in OkCalls("run_instances") : Len(calls[i].ids) = config.instance_count
        /\ Len(instance_ids) = config.instance_count

\* C6: a loaded configuration that lacks a required key ends the run with a
\* fatal error before any remote call is made or any resource is created.
C6_MissingKeyMeansNoRemoteCall ==
    (InRun /\ config # NoConfig /\ config.present # Fields) =>
        /\ calls = <<>>
        /\ pc = "exit" => status = 1

\* C7: a run exits with status 0 exactly when all six steps succeeded; a
\* failed call ends the run with status 1, and no call of a later step is
\* made unless every step before it succeeded.
StepOf(op) ==
    CASE op = "describe_vpcs" -> 2
      [] op \in SgOps -> 3
      [] op = "run_instances" -> 4
      [] op = "wait_instance_running" -> 5
      [] OTHER -> 6

Succeeded(step) ==
    CASE step = 1 -> config # NoConfig
      [] step = 2 -> default_vpc_id # None
      [] step = 3 -> security_group_id # None
      [] step = 4 -> OkCalls("run_instances") # {}
      [] step = 5 -> OkCalls("wait_instance_running") # {}
      [] OTHER -> OkCalls("describe_instances") # {}

C7_EveryErrorIsFatal ==
    InRun =>
        /\ pc = "exit" => /\ status \in {0, 1}
                          /\ status = 0 <=> \A s \in 1..6 : Succeeded(s)
        /\ pc # "exit" => status = NoStatus
        /\ \A i \in 1..Len(calls) :
              /\ \A s \in 1..(StepOf(calls[i].op) - 1) : Succeeded(s)
              /\ (~Ok(calls[i]) /\ ~NotFoundSignalled(calls[i].err)) =>
                    (i = Len(calls) /\ pc = "exit" /\ status = 1)

C7_Witness ==
    /\ InRun /\ pc = "exit" /\ status = 1
    /\ FailedCalls("wait_instance_running") # {}
    /\ OkCalls("run_instances") # {}

\* C8: called with instance identifiers and a group identifier,
\* cleanup_resources returns normally in every case, has attempted
\* delete_security_group whatever the terminate step did, and has reported
\* every failure of terminate_instances, of the wait and of the delete.
C8_CleanupIsBestEffort ==
    (pc = "exit" /\ cret \in {"returned", "raised"} /\ cargs.ids # <<>> /\ cargs.sg # None) =>
        /\ cret = "returned"
        /\ CallsOf({"delete_security_group"}) # {}
        /\ FailedCalls("terminate_instances") # {} => "terminate_error" \in out
        /\ FailedCalls("wait_instance_terminated") # {} => "terminate_error" \in out
        /\ FailedCalls("delete_security_group") # {} => "delete_error" \in out

\* C9: after a successful launch of n instances of which k have a public
\* address, the address list has length k, the summary has one block per
\* instance identifier and exactly k address lines, none read past the end
\* of the address list.
Launched == Len(instance_ids)
Addressed == {m \in 1..Launched : instances[instance_ids[m]].ip # None}

C9_Counts ==
    /\ Len(public_ips) = Cardinality(Addressed)
    /\ \A j \in 1..Len(public_ips) : public_ips[j] # None
    /\ Len(summary) = Launched
    /\ \A m \in 1..Launched : summary[m].id = instance_ids[m]
    /\ Cardinality({m \in 1..Launched : summary[m].ip # NoLine}) = Cardinality(Addressed)
    /\ \A m \in 1..Launched :
          summary[m].ip # NoLine => (m <= Len(public_ips) /\ summary[m].ip = public_ips[m])

C10_RunLeavesEverythingBehind ==
    InRun =>
        /\ \A i \in 1..Len(calls) : calls[i].op \notin ReclaimOps
        /\ \A i \in OkCalls("create_security_group") :
              /\ calls[i].gid \in GroupIds
              /\ groups[calls[i].gid].rules =
                    UNION {calls[j].perms : j \in {a \in OkCalls("authorize_security_group_ingress") :
                                                     calls[a].gid = calls[i].gid}}
        /\ \A i \in OkCalls("run_instances") :
              \A x \in Range(calls[i].ids) :
                 x \in InstIds /\ instances[x].state \in {"pending", "running"}

C10_Witness ==
    /\ InRun /\ pc = "exit" /\ status = 1
    /\ OkCalls("create_security_group") # {}
    /\ FailedCalls("authorize_security_group_ingress") # {}
    /\ \E g \in GroupsNamed(SgName) : groups[g].rules = {Rule(SSH_PORT)}

====
